---- MODULE Spec2Model ----
(***************************************************************************)
(* The statistics recorder of src/bots/sbot_stat.py: StatRecorder (the     *)
(* locked ingestion queue, the worker's process() step, the three          *)
(* read-merge-write routines) and the report queries over the shard        *)
(* documents.                                                              *)
(*                                                                         *)
(* Python values are tagged records: None, str, int, list and dict are     *)
(* told apart by the field t, as isinstance() tells them apart.            *)
(* A "host:port" string is kept as its two parts (HostPort).               *)
(* Timestamps are epoch seconds; localtime is modelled for UTC and for     *)
(* January 1970 (0 <= t < 31 days), which is where all model times lie.    *)
(***************************************************************************)
EXTENDS Integers, Sequences, FiniteSets, TLC

(***************************************************************************)
(* Bounds of the model                                                     *)
(***************************************************************************)
MaxPush == 2       \* add_log calls in one behaviour
MaxWorkers == 2    \* thread slots; start() is called once, so one is used
MaxFaults == 1     \* storage reads or writes that fail in one behaviour
NumProducers == 2  \* message-handling contexts calling add_log
MaxTicks == 1      \* seconds the clock advances in one behaviour

Producers == 1..NumProducers
Workers == (NumProducers + 1)..(NumProducers + MaxWorkers)

(***************************************************************************)
(* Python values                                                           *)
(***************************************************************************)
PyNone == [t |-> "none"]
PyStr(s) == [t |-> "str", v |-> s]
PyInt(n) == [t |-> "int", v |-> n]
PyList(q) == [t |-> "list", v |-> q]
HostPort(h, p) == [t |-> "str", host |-> h, port |-> p]
UserDict(u, ip) == [t |-> "dict", U |-> u, IP |-> ip]

IsNone(x) == x.t = "none"
IsStr(x) == x.t = "str"
IsList(x) == x.t = "list"
IsDict(x) == x.t = "dict"

Range(q) == {q[i] : i \in 1..Len(q)}

\* every listing of the finite set S without repetition: the orders in which
\* iterating a Python set (or a dict keyed from one) can yield its members
Orders(S) ==
  {q \in [1..Cardinality(S) -> S] : \A i, j \in 1..Cardinality(S) : q[i] = q[j] => i = j}

(***************************************************************************)
(* Time: two_digits, parse_time, the log tag and the shard path            *)
(***************************************************************************)
SecondsPerMinute == 60
SecondsPerHour == 3600
SecondsPerDay == 3600 * 24
Retention == 3600 * 24 * 7

\* '0%s' % value below ten, '%s' % value otherwise: the decimal digits
two_digits(value) ==
  IF value < 10 THEN <<0, value>> ELSE <<value \div 10, value % 10>>

\* time.localtime(msg_time)
localtime(msg_time) ==
  [tm_year |-> 1970,
   tm_mon  |-> 1,
   tm_mday |-> (msg_time \div SecondsPerDay) + 1,
   tm_hour |-> (msg_time % SecondsPerDay) \div SecondsPerHour,
   tm_min  |-> (msg_time % SecondsPerHour) \div SecondsPerMinute]

\* (year, month, day, hours, minutes)
parse_time(msg_time) ==
  LET local_time == localtime(msg_time)
  IN  <<local_time.tm_year,
        two_digits(local_time.tm_mon),
        two_digits(local_time.tm_mday),
        two_digits(local_time.tm_hour),
        two_digits(local_time.tm_min)>>

\* '%s-%s-%s %s:%s' % (year, month, day, hours, minutes)
log_tag(msg_time) == parse_time(msg_time)

\* temp.replace('{yyyy}', year).replace('{mm}', month).replace('{dd}', day);
\* the assertion on a missing template fails with ok = FALSE
get_path(cfg, option, msg_time) ==
  LET temp == cfg[option]
      pt == parse_time(msg_time)
  IN  IF IsNone(temp)
      THEN [ok |-> FALSE, path |-> <<>>]
      ELSE [ok |-> TRUE, path |-> <<temp.v, pt[1], pt[2], pt[3]>>]

Options == {"users_log", "stats_log", "speeds_log"}

\* the configuration of the module docstring: one template per log kind
FullConfig == [o \in Options |-> PyStr(o)]
NoConfig == [o \in Options |-> PyNone]

(***************************************************************************)
(* Shard documents: a JSON object is its items in insertion order          *)
(***************************************************************************)
PyDict(kv) == [t |-> "dict", kv |-> kv]

\* container.get(key): the value, or None for a key that is absent
has_key(kv, key) == \E i \in 1..Len(kv) : kv[i].k = key
dict_get(kv, key) ==
  IF has_key(kv, key)
  THEN PyList((CHOOSE e \in Range(kv) : e.k = key).v)
  ELSE PyNone

\* a fresh {key: value}: the other tags of the document are dropped
dict_set_only(kv, key, value) == <<[k |-> key, v |-> value]>>

\* container[key] = value: in place for a key that is present, else at the end
dict_set(kv, key, value) ==
  IF has_key(kv, key)
  THEN [i \in 1..Len(kv) |-> IF kv[i].k = key THEN [k |-> key, v |-> value] ELSE kv[i]]
  ELSE Append(kv, [k |-> key, v |-> value])

\* Storage.read_json(path): the document, or None when there is no file
read_json(files, path) == files[path]

\* container = {} when read_json returned None
container_of(read) == IF IsNone(read) THEN <<>> ELSE read.kv

(***************************************************************************)
(* _save_users: List -> Set of (uid, ip) -> Dict -> List                   *)
(***************************************************************************)
\* without the branch for the older format: a stored item must be a dict
stored_pairs_strict(item) ==
  IF IsDict(item)
  THEN IF IsList(item.IP)
       THEN IF Len(item.IP.v) = 0
            THEN [ok |-> TRUE, pairs |-> {<<item.U, PyNone>>}]
            ELSE [ok |-> TRUE, pairs |-> {<<item.U, PyStr(ip)>> : ip \in Range(item.IP.v)}]
       ELSE IF IsStr(item.IP)
            THEN [ok |-> TRUE, pairs |-> {<<item.U, item.IP>>}]
            ELSE [ok |-> FALSE, pairs |-> {}]
  ELSE [ok |-> FALSE, pairs |-> {}]

\* a stored IP list taken as one value: only its first IP gives a pair
stored_pairs_first(item) ==
  IF IsDict(item)
  THEN IF IsList(item.IP)
       THEN IF Len(item.IP.v) = 0
            THEN [ok |-> TRUE, pairs |-> {<<item.U, PyNone>>}]
            ELSE [ok |-> TRUE, pairs |-> {<<item.U, PyStr(item.IP.v[1])>>}]
       ELSE IF IsStr(item.IP)
            THEN [ok |-> TRUE, pairs |-> {<<item.U, item.IP>>}]
            ELSE [ok |-> FALSE, pairs |-> {}]
  ELSE IF IsStr(item)
       THEN [ok |-> TRUE, pairs |-> {<<item.v, PyNone>>}]
       ELSE [ok |-> FALSE, pairs |-> {}]

\* "convert List to Set": the pairs of one stored item, or the failed
\* assertion (IP neither a list nor a str)
stored_pairs(item) ==
  IF IsDict(item)
  THEN IF IsList(item.IP)
       THEN IF Len(item.IP.v) = 0
            THEN [ok |-> TRUE, pairs |-> {<<item.U, PyNone>>}]
            ELSE [ok |-> TRUE, pairs |-> {<<item.U, PyStr(ip)>> : ip \in Range(item.IP.v)}]
       ELSE IF IsStr(item.IP)
            THEN [ok |-> TRUE, pairs |-> {<<item.U, item.IP>>}]
            ELSE [ok |-> FALSE, pairs |-> {}]
  ELSE IF IsStr(item)
       THEN [ok |-> TRUE, pairs |-> {<<item.v, PyNone>>}]
       ELSE [ok |-> FALSE, pairs |-> {}]

\* "add new users": the pair of one incoming item; a list is unhashable, so
\* records.add((uid, ip)) raises TypeError for an IP that is a list
new_pair(item) ==
  IF IsDict(item)
  THEN IF IsList(item.IP)
       THEN [ok |-> FALSE, pairs |-> {}]
       ELSE [ok |-> TRUE, pairs |-> {<<item.U, item.IP>>}]
  ELSE IF IsStr(item)
       THEN [ok |-> TRUE, pairs |-> {<<item.v, PyNone>>}]
       ELSE [ok |-> FALSE, pairs |-> {}]

\* user_records without the first loop: the stored list is not taken in
user_records_fresh(array, users) ==
  IF \A i \in 1..Len(users) : new_pair(users[i]).ok
  THEN [ok |-> TRUE, records |-> UNION {new_pair(users[i]).pairs : i \in 1..Len(users)}]
  ELSE [ok |-> FALSE, records |-> {}]

\* the set `records` after both loops, or the exception
user_records(array, users) ==
  LET old == IF IsNone(array) THEN <<>> ELSE array.v
  IN  IF /\ \A i \in 1..Len(old) : stored_pairs(old[i]).ok
         /\ \A i \in 1..Len(users) : new_pair(users[i]).ok
      THEN [ok |-> TRUE,
            records |-> UNION ({stored_pairs(old[i]).pairs : i \in 1..Len(old)}
                               \cup {new_pair(users[i]).pairs : i \in 1..Len(users)})]
      ELSE [ok |-> FALSE, records |-> {}]

\* "convert Set to Dict": uid -> the set of its non-null IPs
user_table(records) ==
  [uid \in {r[1] : r \in records} |->
     {r[2].v : r \in {x \in records : x[1] = uid /\ ~IsNone(x[2])}}]

\* "convert Dict to List": one {U, IP} item per uid; the order of the items
\* and of each list(ips) is the iteration order of a set, which Python leaves
\* open, so every order is a possible result
user_arrays(table) ==
  LET uids == DOMAIN table
      lists == {f \in [uids -> UNION {Orders(table[u]) : u \in uids}] :
                  \A u \in uids : f[u] \in Orders(table[u])}
  IN  {[i \in 1..Cardinality(uids) |-> UserDict(q[i], PyList(f[q[i]]))] :
         q \in Orders(uids), f \in lists}

\* the containers _save_users may hand to write_json, or the exception
save_users(container, msg_time, users) ==
  LET tag == log_tag(msg_time)
      merged == user_records(dict_get(container, tag), users)
  IN  IF merged.ok
      THEN [ok |-> TRUE,
            out |-> {dict_set(container, tag, a) : a \in user_arrays(user_table(merged.records))}]
      ELSE [ok |-> FALSE, out |-> {}]

(***************************************************************************)
(* _save_stats and _save_speeds: append to the tag's list                  *)
(***************************************************************************)
tag_array(container, tag) ==
  IF IsNone(dict_get(container, tag)) THEN <<>> ELSE dict_get(container, tag).v

save_stats(container, msg_time, stats) ==
  LET tag == log_tag(msg_time)
  IN  [ok |-> TRUE,
       out |-> {dict_set(container, tag, tag_array(container, tag) \o stats)}]

\* '%s:%d' % (host, port) raises TypeError unless port is a number
speed_item(sender, provider, srv, client) ==
  [t |-> "dict", U |-> sender, provider |-> provider,
   station |-> HostPort(srv.host, srv.port.v),
   client |-> client, response_time |-> srv.response_time]

\* a sample equal to one the list already has is not appended again
RECURSIVE append_new(_, _)
append_new(array, items) ==
  IF items = <<>> THEN array
  ELSE append_new(IF Head(items) \in Range(array) THEN array ELSE Append(array, Head(items)),
                  Tail(items))

save_speeds_distinct(container, msg_time, sender, provider, stations, client) ==
  LET tag == log_tag(msg_time)
  IN  IF \A i \in 1..Len(stations) : stations[i].port.t = "int"
      THEN [ok |-> TRUE,
            out |-> {dict_set(container, tag,
                       append_new(tag_array(container, tag),
                                  [i \in 1..Len(stations) |->
                                     speed_item(sender, provider, stations[i], client)]))}]
      ELSE [ok |-> FALSE, out |-> {}]

\* a station whose item cannot be built is passed over, the others are saved
save_speeds_each(container, msg_time, sender, provider, stations, client) ==
  LET tag == log_tag(msg_time)
      good == SelectSeq(stations, LAMBDA srv : srv.port.t = "int")
  IN  [ok |-> TRUE,
       out |-> {dict_set(container, tag,
                  tag_array(container, tag)
                    \o [i \in 1..Len(good) |->
                          speed_item(sender, provider, good[i], client)])}]

save_speeds(container, msg_time, sender, provider, stations, client) ==
  LET tag == log_tag(msg_time)
  IN  IF \A i \in 1..Len(stations) : stations[i].port.t = "int"
      THEN [ok |-> TRUE,
            out |-> {dict_set(container, tag,
                       tag_array(container, tag)
                         \o [i \in 1..Len(stations) |->
                               speed_item(sender, provider, stations[i], client)])}]
      ELSE [ok |-> FALSE, out |-> {}]

(***************************************************************************)
(* get_users: the report of one day                                        *)
(***************************************************************************)
\* "for tag in container: for item in array": the items in scan order
RECURSIVE scan(_)
scan(kv) == IF kv = <<>> THEN <<>> ELSE Head(kv).v \o scan(Tail(kv))

\* "seek user result": the index of the result with this user id, or 0
seek(users, user_id) ==
  IF \E i \in 1..Len(users) : users[i].U = user_id
  THEN CHOOSE i \in 1..Len(users) :
         users[i].U = user_id /\ \A j \in 1..(i - 1) : users[j].U # user_id
  ELSE 0

\* the IPs one item adds to its user's set: a list's, a str, or none
item_ips(ip_list) ==
  IF IsList(ip_list) THEN Range(ip_list.v)
  ELSE IF IsStr(ip_list) THEN {ip_list.v}
  ELSE {}

\* the item's IPs replace the set in place of being added to it
fold_user_replace(users, item) ==
  LET user_id == IF IsDict(item) THEN item.U ELSE item.v
      ip_list == IF IsDict(item) THEN item.IP ELSE PyNone
      at == seek(users, user_id)
  IN  IF at = 0
      THEN Append(users, [U |-> user_id, IP |-> item_ips(ip_list)])
      ELSE [users EXCEPT ![at].IP = item_ips(ip_list)]

\* the body of the inner loop for one stored item (a user id is a str in
\* the model, never None)
fold_user(users, item) ==
  LET user_id == IF IsDict(item) THEN item.U ELSE item.v
      ip_list == IF IsDict(item) THEN item.IP ELSE PyNone
      at == seek(users, user_id)
  IN  IF at = 0
      THEN Append(users, [U |-> user_id, IP |-> item_ips(ip_list)])
      ELSE [users EXCEPT ![at].IP = @ \cup item_ips(ip_list)]

RECURSIVE fold_users(_, _)
fold_users(users, items) ==
  IF items = <<>> THEN users
  ELSE fold_users(fold_user(users, Head(items)), Tail(items))

\* get_users(now): [] when there is no file, else the fold of every item
get_users(disk, cfg, now) ==
  LET read == read_json(disk, get_path(cfg, "users_log", now).path)
  IN  IF IsNone(read) THEN <<>> ELSE fold_users(<<>>, scan(read.kv))

\* process(): a list address of length 2 becomes '%s:%d'; any other length
\* fails the assertion; a str is passed on as it is
client_address(remote) ==
  IF IsList(remote)
  THEN IF Len(remote.v) = 2 /\ remote.v[2].t = "int"
       THEN [ok |-> TRUE, client |-> HostPort(remote.v[1], remote.v[2].v)]
       ELSE [ok |-> FALSE, client |-> PyNone]
  ELSE [ok |-> TRUE, client |-> remote]

(***************************************************************************)
(* The contents the message handlers may submit                            *)
(***************************************************************************)
Now0 == 8 * SecondsPerDay + 2 * SecondsPerMinute   \* time.time() at the start
T1 == 8 * SecondsPerDay          \* a minute of the current day
T2 == T1 + SecondsPerMinute      \* the next minute of that day
TB == Now0 - Retention           \* exactly seven days before Now0
Times == {T1, T2, TB}

Blank(mod, time) ==
  [mod |-> mod, time |-> time, users |-> PyNone, stats |-> PyNone, U |-> PyNone,
   provider |-> PyNone, stations |-> PyNone, remote_address |-> PyNone]

UsersContent(time, users) == [Blank("users", time) EXCEPT !.users = PyList(users)]
StatsContent(time, stats) == [Blank("stats", time) EXCEPT !.stats = PyList(stats)]
SpeedsContent(time, sender, provider, stations, remote) ==
  [Blank("speeds", time) EXCEPT !.U = sender, !.provider = provider,
                               !.stations = PyList(stations), !.remote_address = remote]

Stat(s, t, c) == [S |-> s, T |-> t, C |-> c]
Srv(host, port, rt) == [host |-> host, port |-> port, response_time |-> rt]

UserContents ==
  { UsersContent(PyInt(T1), <<UserDict("u1", PyStr("ip1"))>>),
    UsersContent(PyInt(T1), <<UserDict("u1", PyStr("ip2")), PyStr("u2")>>),
    UsersContent(PyInt(T2), <<UserDict("u2", PyNone)>>),
    UsersContent(PyInt(TB), <<UserDict("u2", PyStr("ip1"))>>),
    UsersContent(PyInt(T1), <<UserDict("u1", PyList(<<"ip1", "ip2">>))>>) }

StatContents ==
  { StatsContent(PyInt(T1), <<Stat(0, 1, 2), Stat(0, 1, 2)>>),
    StatsContent(PyNone, <<Stat(0, 1, 2)>>) }

SpeedContents ==
  { SpeedsContent(PyInt(T1), PyStr("u1"), PyStr("p1"),
                  <<Srv("h1", PyInt(9394), PyInt(1)), Srv("h2", PyInt(9394), PyInt(0))>>,
                  PyList(<<"c1", PyInt(100)>>)),
    SpeedsContent(PyInt(T1), PyStr("u1"), PyStr("p1"),
                  <<Srv("h1", PyInt(9394), PyInt(1))>>,
                  PyList(<<"c1", PyInt(100), PyInt(0)>>)),
    SpeedsContent(PyInt(T1), PyNone, PyStr("p1"),
                  <<Srv("h1", PyInt(9394), PyInt(1)), Srv("h2", PyNone, PyInt(1))>>,
                  HostPort("c1", 100)) }

OtherContents == { Blank("other", PyInt(T1)) }

Menu == UserContents \cup StatContents \cup SpeedContents \cup OtherContents

Paths == {get_path(FullConfig, o, t).path : o \in Options, t \in Times}

\* what the disk holds when the recorder is constructed: one users shard of
\* the current day, written in the older formats (a bare user id, an IP kept
\* as a str), and no other file
NoFiles == [p \in Paths |-> PyNone]
LegacyFiles ==
  [NoFiles EXCEPT ![get_path(FullConfig, "users_log", T1).path] =
     PyDict(<<[k |-> log_tag(T1),
               v |-> <<PyStr("u1"), UserDict("u2", PyStr("ip1"))>>]>>)]

(***************************************************************************)
(* State                                                                   *)
(***************************************************************************)
VARIABLES
  mainpc,      \* "init" before g_recorder.start(config), "started" after
  shared,      \* GlobalVariable().config: what the main block passes to start
  config,      \* self.__config
  lock,        \* self.__lock: 0 when free, else the thread holding it
  contents,    \* self.__contents, each content with the index of its add_log
  pc,          \* per worker thread: "off", "idle", "next", "process", "save"
  content,     \* per worker thread: the content _next returned
  log_path,    \* per worker thread: the path _get_path returned
  container,   \* per worker thread: the document read, being merged
  files,       \* the storage: path -> document, or None for no file
  clock,       \* time.time()
  faults,      \* storage failures so far
  files0,      \* history: the storage at construction
  inputs,      \* the contents the message handlers submit in this behaviour
  pushed,      \* history: the contents in the order add_log appended them
  popped,      \* history: the contents in the order _next returned them
  log,         \* history: <<index, event>> of what process() did with each
  batchA,      \* merge orders: the users of one content
  batchB,      \* merge orders: the users of another content of the same minute
  docA,        \* merge orders: the document after batchA alone
  docAB,       \* merge orders: the document after batchA, then batchB
  docBA,       \* merge orders: the document after batchB, then batchA
  mstep,       \* merge orders: how many contents each order has processed
  speeds,      \* get_speeds: the list of results so far
  scanned,     \* get_speeds: how many stored items the loops have been through
  samples,     \* math_stat: the array it is called with
  stat         \* math_stat: what it returned, None before the call

mvars == <<batchA, batchB, docA, docAB, docBA, mstep>>
yvars == <<speeds, scanned, samples, stat>>
vars == <<mainpc, shared, config, lock, contents, pc, content, log_path, container,
          files, clock, faults, files0, inputs, pushed, popped, log, mvars, yvars>>

qvars == <<lock, contents, pushed, popped>>
wvars == <<pc, content, log_path, container>>
\* what no step of the recorder changes
fixed == <<shared, files0, inputs, mvars, yvars>>

\* the recorder as constructed, the main block before its call of start
Constructed ==
  /\ mainpc = "init"
  /\ config = NoConfig
  /\ lock = 0
  /\ contents = <<>>
  /\ pc = [w \in Workers |-> "off"]
  /\ content = [w \in Workers |-> PyNone]
  /\ log_path = [w \in Workers |-> <<>>]
  /\ container = [w \in Workers |-> <<>>]
  /\ files = LegacyFiles
  /\ files0 = files
  /\ clock = Now0
  /\ faults = 0
  /\ pushed = <<>>
  /\ popped = <<>>
  /\ log = {}
  /\ batchA = <<>> /\ batchB = <<>>
  /\ docA = <<>> /\ docAB = <<>> /\ docBA = <<>>
  /\ mstep = 0
  /\ speeds = <<>> /\ scanned = 0
  /\ samples = <<>> /\ stat = PyNone

Init ==
  /\ Constructed
  /\ shared = FullConfig
  /\ inputs = Menu

\* time.time() moves on
Tick ==
  /\ clock < Now0 + MaxTicks
  /\ clock' = clock + 1
  /\ UNCHANGED <<mainpc, config, qvars, wvars, files, faults, fixed, log>>

(***************************************************************************)
(* start: called once by the main block                                    *)
(***************************************************************************)
\* threading.Thread(target=self.run).start(): one more thread runs the loop
spawn ==
  /\ \E w \in Workers :
       /\ pc[w] = "off"
       /\ \A v \in Workers : v < w => pc[v] # "off"
       /\ pc' = [pc EXCEPT ![w] = "idle"]
  /\ config' = shared
  /\ mainpc' = "started"
  /\ UNCHANGED <<qvars, content, log_path, container, files, clock, faults, fixed, log>>

\* start called again: a second thread runs the loop
start_again == spawn

start ==
  /\ mainpc = "init"
  /\ spawn

(***************************************************************************)
(* add_log and _next: the queue under self.__lock                          *)
(***************************************************************************)
\* with self.__lock: (acquire)
add_log_lock(p) ==
  /\ lock = 0
  /\ Len(pushed) < MaxPush
  /\ lock' = p
  /\ UNCHANGED <<mainpc, config, contents, pushed, popped, wvars, files, clock,
                 faults, fixed, log>>

\* self.__contents.append(content), and the lock is released
add_log_append(p) ==
  /\ lock = p
  /\ \E c \in inputs :
       /\ contents' = Append(contents, [id |-> Len(pushed) + 1, c |-> c])
       /\ pushed' = Append(pushed, c)
  /\ lock' = 0
  /\ UNCHANGED <<mainpc, config, popped, wvars, files, clock, faults, fixed, log>>

\* process() calls _next(): with self.__lock: (acquire)
next_lock(w) ==
  /\ pc[w] = "idle"
  /\ lock = 0
  /\ lock' = w
  /\ pc' = [pc EXCEPT ![w] = "next"]
  /\ UNCHANGED <<mainpc, config, contents, pushed, popped, content, log_path,
                 container, files, clock, faults, fixed, log>>

\* pop() in place of pop(0): the last content
pop_back(q) == [item |-> q[Len(q)], rest |-> SubSeq(q, 1, Len(q) - 1)]

\* [0] in place of pop(0): the content stays in the list
pop_peek(q) == [item |-> Head(q), rest |-> q]

\* self.__contents.pop(0), or None for an empty list
pop_front(q) == [item |-> Head(q), rest |-> Tail(q)]

\* the lock kept after pop(0): process() would run inside `with self.__lock`
next_pop_hold(w) ==
  /\ pc[w] = "next"
  /\ lock = w
  /\ \/ /\ Len(contents) > 0
        /\ content' = [content EXCEPT ![w] = pop_front(contents).item]
        /\ contents' = pop_front(contents).rest
        /\ popped' = Append(popped, pop_front(contents).item)
        /\ pc' = [pc EXCEPT ![w] = "process"]
        /\ lock' = w
     \/ /\ Len(contents) = 0
        /\ content' = [content EXCEPT ![w] = PyNone]
        /\ pc' = [pc EXCEPT ![w] = "idle"]
        /\ lock' = 0
        /\ UNCHANGED <<contents, popped>>
  /\ UNCHANGED <<mainpc, config, pushed, log_path, container, files, clock,
                 faults, fixed, log>>

\* the body of _next, and the lock is released; on None process() returns
\* False and the run loop rests before it calls process() again
next_pop(w) ==
  /\ pc[w] = "next"
  /\ lock = w
  /\ lock' = 0
  /\ \/ /\ Len(contents) > 0
        /\ content' = [content EXCEPT ![w] = pop_front(contents).item]
        /\ contents' = pop_front(contents).rest
        /\ popped' = Append(popped, pop_front(contents).item)
        /\ pc' = [pc EXCEPT ![w] = "process"]
     \/ /\ Len(contents) = 0
        /\ content' = [content EXCEPT ![w] = PyNone]
        /\ pc' = [pc EXCEPT ![w] = "idle"]
        /\ UNCHANGED <<contents, popped>>
  /\ UNCHANGED <<mainpc, config, pushed, log_path, container, files, clock,
                 faults, fixed, log>>

(***************************************************************************)
(* process: one step of the worker loop on the content _next returned      *)
(***************************************************************************)
\* <= in place of <: a content exactly seven days old is dropped as well
expired_le(msg_time, now) ==
  IF IsNone(msg_time) THEN TRUE ELSE msg_time.v <= now - Retention

\* msg_time is None or msg_time < now - 3600*24*7
expired(msg_time, now) ==
  IF IsNone(msg_time) THEN TRUE ELSE msg_time.v < now - Retention

Mods == {"users", "stats", "speeds"}
\* every routine takes the template of the users log
option_of_users(mod) == "users_log"

option_of(mod) ==
  CASE mod = "users" -> "users_log" [] mod = "stats" -> "stats_log" [] OTHER -> "speeds_log"

\* what process() does before the routine reads: only the speeds branch can
\* raise here (the address assertion, the '%s:%d' of the address)
before_read(c) == IF c.mod = "speeds" THEN client_address(c.remote_address).ok ELSE TRUE

\* the routine of the content's module on the document read
merge(c, doc) ==
  CASE c.mod = "users" -> save_users(doc, c.time.v, c.users.v)
    [] c.mod = "stats" -> save_stats(doc, c.time.v, c.stats.v)
    [] OTHER -> save_speeds(doc, c.time.v, c.U, c.provider, c.stations.v,
                            client_address(c.remote_address).client)

\* process() returns True: the locals are gone, the loop calls process() again
return(w, events) ==
  /\ pc' = [pc EXCEPT ![w] = "idle"]
  /\ content' = [content EXCEPT ![w] = PyNone]
  /\ log_path' = [log_path EXCEPT ![w] = <<>>]
  /\ container' = [container EXCEPT ![w] = <<>>]
  /\ log' = log \cup {<<content[w].id, e>> : e \in events}

\* "message expired": warning, return True
process_expired(w) ==
  /\ pc[w] = "process"
  /\ expired(content[w].c.time, clock)
  /\ return(w, {"expired"})
  /\ UNCHANGED <<mainpc, config, qvars, files, clock, faults, fixed>>

\* "ignore mod": warning, return True
process_ignore(w) ==
  /\ pc[w] = "process"
  /\ ~expired(content[w].c.time, clock)
  /\ content[w].c.mod \notin Mods
  /\ return(w, {"ignored"})
  /\ UNCHANGED <<mainpc, config, qvars, files, clock, faults, fixed>>

\* an exception before the document is read (the address of a speeds content,
\* a missing template): caught, "failed to process content", return True
process_raise(w) ==
  /\ pc[w] = "process"
  /\ ~expired(content[w].c.time, clock)
  /\ content[w].c.mod \in Mods
  /\ IF before_read(content[w].c)
     THEN ~get_path(config, option_of(content[w].c.mod), content[w].c.time.v).ok
     ELSE TRUE
  /\ return(w, {"error"})
  /\ UNCHANGED <<mainpc, config, qvars, files, clock, faults, fixed>>

\* _get_path and Storage.read_json of the routine
process_read(w) ==
  /\ pc[w] = "process"
  /\ ~expired(content[w].c.time, clock)
  /\ content[w].c.mod \in Mods
  /\ before_read(content[w].c)
  /\ LET got == get_path(config, option_of(content[w].c.mod), content[w].c.time.v)
     IN  /\ got.ok
         /\ log_path' = [log_path EXCEPT ![w] = got.path]
         /\ container' = [container EXCEPT ![w] = container_of(read_json(files, got.path))]
  /\ pc' = [pc EXCEPT ![w] = "save"]
  /\ log' = log \cup {<<content[w].id, "read">>}
  /\ UNCHANGED <<mainpc, config, qvars, content, files, clock, faults, fixed>>

\* Storage.read_json raises: caught by process()
process_read_fails(w) ==
  /\ pc[w] = "process"
  /\ ~expired(content[w].c.time, clock)
  /\ content[w].c.mod \in Mods
  /\ before_read(content[w].c)
  /\ get_path(config, option_of(content[w].c.mod), content[w].c.time.v).ok
  /\ faults < MaxFaults
  /\ faults' = faults + 1
  /\ return(w, {"read", "error"})
  /\ UNCHANGED <<mainpc, config, qvars, files, clock, fixed>>

\* the handler of the exception appends the content again for a retry
save_raise_requeue(w) ==
  /\ pc[w] = "save"
  /\ ~merge(content[w].c, container[w]).ok
  /\ return(w, {"error"})
  /\ contents' = Append(contents, content[w])
  /\ UNCHANGED <<mainpc, config, lock, pushed, popped, files, clock, faults, fixed>>

\* without the try of process(): the exception ends the thread of the loop
save_raise_uncaught(w) ==
  /\ pc[w] = "save"
  /\ ~merge(content[w].c, container[w]).ok
  /\ pc' = [pc EXCEPT ![w] = "dead"]
  /\ log' = log \cup {<<content[w].id, "error">>}
  /\ UNCHANGED <<mainpc, config, qvars, content, log_path, container, files, clock,
                 faults, fixed>>

\* the routine raises while it merges: nothing is written
save_raise(w) ==
  /\ pc[w] = "save"
  /\ ~merge(content[w].c, container[w]).ok
  /\ return(w, {"error"})
  /\ UNCHANGED <<mainpc, config, qvars, files, clock, faults, fixed>>

\* the routine merges and Storage.write_json replaces the document
save_write(w) ==
  /\ pc[w] = "save"
  /\ merge(content[w].c, container[w]).ok
  /\ \E out \in merge(content[w].c, container[w]).out :
       files' = [files EXCEPT ![log_path[w]] = PyDict(out)]
  /\ return(w, {"write", "saved"})
  /\ UNCHANGED <<mainpc, config, qvars, clock, faults, fixed>>

\* Storage.write_json fails: the document on disk stays as it was; the failed
\* result is what the routine returns, and process() does not look at it
save_write_fails(w) ==
  /\ pc[w] = "save"
  /\ merge(content[w].c, container[w]).ok
  /\ faults < MaxFaults
  /\ faults' = faults + 1
  /\ return(w, {"write", "unsaved"})
  /\ UNCHANGED <<mainpc, config, qvars, files, clock, fixed>>

(***************************************************************************)
(* The recorder                                                            *)
(***************************************************************************)
Next ==
  \/ Tick
  \/ start
  \/ \E p \in Producers : add_log_lock(p)
  \/ \E p \in Producers : add_log_append(p)
  \/ \E w \in Workers : next_lock(w)
  \/ \E w \in Workers : next_pop(w)
  \/ \E w \in Workers : process_expired(w)
  \/ \E w \in Workers : process_ignore(w)
  \/ \E w \in Workers : process_raise(w)
  \/ \E w \in Workers : process_read(w)
  \/ \E w \in Workers : process_read_fails(w)
  \/ \E w \in Workers : save_raise(w)
  \/ \E w \in Workers : save_write(w)
  \/ \E w \in Workers : save_write_fails(w)

Spec == Init /\ [][Next]_vars

(***************************************************************************)
(* The recorder under fair scheduling: the main block gets to its call of  *)
(* start, a thread inside `with self.__lock` of add_log goes on to append  *)
(* and release, and the thread of the loop goes on whenever it can take a  *)
(* step (Runner.run calls process() again and again, resting when it       *)
(* returns False).                                                         *)
(***************************************************************************)
run(w) ==
  \/ next_lock(w)
  \/ next_pop(w)
  \/ process_expired(w)
  \/ process_ignore(w)
  \/ process_raise(w)
  \/ process_read(w)
  \/ process_read_fails(w)
  \/ save_raise(w)
  \/ save_write(w)
  \/ save_write_fails(w)

Fairness ==
  /\ WF_vars(start)
  /\ \A p \in Producers : WF_vars(add_log_append(p))
  /\ \A w \in Workers : WF_vars(run(w))

\* the contents submitted under fair scheduling: every kind, an expired and
\* a failing one among them, but for the two users contents of the minute T1
\* that bring more than one IP or user to the stored list (what a merge
\* computes has no part in whether the loop goes on)
FairMenu ==
  Menu \ { UsersContent(PyInt(T1), <<UserDict("u1", PyStr("ip1"))>>),
           UsersContent(PyInt(T1), <<UserDict("u1", PyStr("ip2")), PyStr("u2")>>) }

InitFair ==
  /\ Constructed
  /\ shared = FullConfig
  /\ inputs = FairMenu

SpecFair == InitFair /\ [][Next]_vars /\ Fairness

(***************************************************************************)
(* The recorder started with any configuration: the section may lack the   *)
(* template of one log kind, or of all.                                    *)
(***************************************************************************)
Configs ==
  {FullConfig, NoConfig} \cup {[FullConfig EXCEPT ![o] = PyNone] : o \in Options}

InitConfig ==
  /\ Constructed
  /\ shared \in Configs
  /\ inputs = FairMenu

SpecConfig == InitConfig /\ [][Next]_vars

(***************************************************************************)
(* The users merge in two orders: the contents batchA and batchB of one    *)
(* minute are processed as A, B on one copy of a document and as B, A on   *)
(* another, with a storage that does not fail.                             *)
(***************************************************************************)
MergeBatches == {c.users.v : c \in UserContents}

\* the documents a users shard may hold before the two contents arrive
MergeDocs ==
  { <<>>,
    LegacyFiles[get_path(FullConfig, "users_log", T1).path].kv,
    <<[k |-> log_tag(T1), v |-> <<UserDict("u1", PyList(<<"ip2">>))>>]>>,
    <<[k |-> log_tag(T2), v |-> <<UserDict("u2", PyList(<<>>))>>]>> }

\* process() on a users content: the document _save_users writes, or the
\* document as it was when the routine raised and process() caught it
processed(doc, msg_time, users) ==
  IF save_users(doc, msg_time, users).ok THEN save_users(doc, msg_time, users).out ELSE {doc}

InitMerge ==
  /\ mainpc = "started"
  /\ shared = FullConfig
  /\ config = FullConfig
  /\ lock = 0
  /\ contents = <<>>
  /\ pc = [w \in Workers |-> "off"]
  /\ content = [w \in Workers |-> PyNone]
  /\ log_path = [w \in Workers |-> <<>>]
  /\ container = [w \in Workers |-> <<>>]
  /\ files = LegacyFiles
  /\ files0 = LegacyFiles
  /\ inputs = Menu
  /\ clock = Now0
  /\ faults = 0
  /\ pushed = <<>>
  /\ popped = <<>>
  /\ log = {}
  /\ batchA \in MergeBatches
  /\ batchB \in MergeBatches
  /\ docAB \in MergeDocs
  /\ docBA = docAB
  /\ docA = docAB
  /\ mstep = 0
  /\ speeds = <<>> /\ scanned = 0
  /\ samples = <<>> /\ stat = PyNone

rvars == <<mainpc, shared, config, lock, contents, pc, content, log_path, container,
           files, clock, faults, files0, inputs, pushed, popped, log>>

\* the first content of each order
merge_first ==
  /\ mstep = 0
  /\ docAB' \in processed(docAB, T1, batchA)
  /\ docBA' \in processed(docBA, T1, batchB)
  /\ docA' = docAB'
  /\ mstep' = 1
  /\ UNCHANGED <<rvars, yvars, batchA, batchB>>

\* the second content of each order
merge_second ==
  /\ mstep = 1
  /\ docAB' \in processed(docAB, T1, batchB)
  /\ docBA' \in processed(docBA, T1, batchA)
  /\ mstep' = 2
  /\ UNCHANGED <<rvars, yvars, batchA, batchB, docA>>

NextMerge == merge_first \/ merge_second

SpecMerge == InitMerge /\ [][NextMerge]_vars

(***************************************************************************)
(* get_speeds: the report of one day, item by item                         *)
(***************************************************************************)
MaxItems == 3      \* stored speed items in the shard of a report

\* a stored speeds item (the dict _save_speeds appends)
SpeedItem(sender, provider, station, client, response_time) ==
  [t |-> "dict", U |-> sender, provider |-> provider, station |-> station,
   client |-> client, response_time |-> response_time]

\* < in place of <=: a response time of 0 is taken for a sample
speed_valid_ge(item) ==
  IF IsNone(item.response_time) THEN FALSE ELSE item.response_time.v >= 0

\* response_time is None or response_time <= 0: the item is skipped
speed_valid(item) ==
  IF IsNone(item.response_time) THEN FALSE ELSE item.response_time.v > 0

\* client.split(':')[0] of a str, client[0] of a list, else client as it is
client_ip(client) ==
  IF IsStr(client)
  THEN IF "host" \in DOMAIN client THEN PyStr(client.host) ELSE client
  ELSE IF IsList(client) THEN PyStr(client.v[1])
  ELSE client

\* an item without a provider or a user passes the test of that field
speed_match_open(res, item) ==
  /\ res.station = item.station
  /\ res.client_ip = client_ip(item.client)
  /\ (IsNone(res.provider) \/ IsNone(item.provider) \/ res.provider = item.provider)
  /\ (IsNone(res.U) \/ IsNone(item.U) \/ res.U = item.U)

\* the test of the inner loop: same station and client IP, and the result's
\* provider and user, where it has one, equal to the item's
speed_match(res, item) ==
  /\ res.station = item.station
  /\ res.client_ip = client_ip(item.client)
  /\ (IsNone(res.provider) \/ res.provider = item.provider)
  /\ (IsNone(res.U) \/ res.U = item.U)

\* results are told apart by station and client IP alone
seek_speed_key(results, item) ==
  LET same(res) == res.station = item.station /\ res.client_ip = client_ip(item.client)
  IN  IF \E i \in 1..Len(results) : same(results[i])
      THEN CHOOSE i \in 1..Len(results) :
             same(results[i]) /\ \A j \in 1..(i - 1) : ~same(results[j])
      ELSE 0

\* "seek speed result": the index of the first result the item matches, or 0
seek_speed(results, item) ==
  IF \E i \in 1..Len(results) : speed_match(results[i], item)
  THEN CHOOSE i \in 1..Len(results) :
         speed_match(results[i], item) /\ \A j \in 1..(i - 1) : ~speed_match(results[j], item)
  ELSE 0

\* the new result: station, client_ip and an empty rt ('U' and 'provider'
\* are absent, which get() reads as None)
new_speed(item) ==
  [station |-> item.station, client_ip |-> client_ip(item.client), rt |-> <<>>,
   U |-> PyNone, provider |-> PyNone]

\* result['U'] = sender and result['provider'] = provider where not None,
\* and rt.append(response_time)
add_speed(results, at, item) ==
  [results EXCEPT ![at].U = IF IsNone(item.U) THEN @ ELSE item.U,
                  ![at].provider = IF IsNone(item.provider) THEN @ ELSE item.provider,
                  ![at].rt = Append(@, item.response_time.v)]

\* the body of the inner loop for one stored item
fold_speed(results, item) ==
  IF ~speed_valid(item) THEN results
  ELSE IF seek_speed(results, item) = 0
       THEN add_speed(Append(results, new_speed(item)), Len(results) + 1, item)
       ELSE add_speed(results, seek_speed(results, item), item)

RECURSIVE fold_speeds(_, _)
fold_speeds(results, items) ==
  IF items = <<>> THEN results
  ELSE fold_speeds(fold_speed(results, Head(items)), Tail(items))

\* the stored items get_speeds(now) goes through, in the order of its loops
speed_items(disk, cfg, now) ==
  LET read == read_json(disk, get_path(cfg, "speeds_log", now).path)
  IN  IF IsNone(read) THEN <<>> ELSE scan(read.kv)

\* get_speeds(now): [] when there is no file, else the fold of every item
get_speeds(disk, cfg, now) == fold_speeds(<<>>, speed_items(disk, cfg, now))

\* the speed items a shard may hold: every user and provider (None included)
\* for one station and client, the same client from another port, another
\* client, another station, and items without a positive response time
StoredSpeeds ==
  { SpeedItem(u, p, HostPort("h1", 9394), HostPort("c1", 100), PyInt(1)) :
      u \in {PyNone, PyStr("u1"), PyStr("u2")}, p \in {PyNone, PyStr("p1"), PyStr("p2")} }
  \cup
  { SpeedItem(PyStr("u1"), PyStr("p1"), HostPort("h1", 9394), HostPort("c1", 200), PyInt(2)),
    SpeedItem(PyStr("u1"), PyStr("p1"), HostPort("h1", 9394), HostPort("c2", 100), PyInt(1)),
    SpeedItem(PyStr("u1"), PyStr("p1"), HostPort("h2", 9394), HostPort("c1", 100), PyInt(1)),
    SpeedItem(PyStr("u1"), PyStr("p1"), HostPort("h1", 9394), HostPort("c1", 100), PyInt(0)),
    SpeedItem(PyStr("u1"), PyStr("p1"), HostPort("h1", 9394), HostPort("c1", 100), PyNone) }

\* a speeds shard of the day of T1: the first item under the tag of T1, the
\* others (there may be none) under the tag of T2
SpeedFiles(items) ==
  [NoFiles EXCEPT ![get_path(FullConfig, "speeds_log", T1).path] =
     PyDict(<<[k |-> log_tag(T1), v |-> SubSeq(items, 1, 1)],
              [k |-> log_tag(T2), v |-> SubSeq(items, 2, Len(items))]>>)]

InitSpeeds ==
  /\ mainpc = "started"
  /\ shared = FullConfig
  /\ config = FullConfig
  /\ lock = 0
  /\ contents = <<>>
  /\ pc = [w \in Workers |-> "off"]
  /\ content = [w \in Workers |-> PyNone]
  /\ log_path = [w \in Workers |-> <<>>]
  /\ container = [w \in Workers |-> <<>>]
  /\ \E n \in 1..MaxItems : \E items \in [1..n -> StoredSpeeds] :
       files = SpeedFiles(items)
  /\ files0 = files
  /\ inputs = {}
  /\ clock = Now0
  /\ faults = 0
  /\ pushed = <<>>
  /\ popped = <<>>
  /\ log = {}
  /\ batchA = <<>> /\ batchB = <<>>
  /\ docA = <<>> /\ docAB = <<>> /\ docBA = <<>>
  /\ mstep = 0
  /\ speeds = <<>> /\ scanned = 0
  /\ samples = <<>> /\ stat = PyNone

\* the next stored item of the loops of get_speeds
speed_next == speed_items(files, config, clock)[scanned + 1]

\* "speed item error": the item is skipped, the loop goes on
get_speeds_skip ==
  /\ scanned < Len(speed_items(files, config, clock))
  /\ ~speed_valid(speed_next)
  /\ scanned' = scanned + 1
  /\ UNCHANGED <<rvars, mvars, speeds, samples, stat>>

\* no result matches: a new result is appended and takes the sample
get_speeds_new ==
  /\ scanned < Len(speed_items(files, config, clock))
  /\ speed_valid(speed_next)
  /\ seek_speed(speeds, speed_next) = 0
  /\ speeds' = fold_speed(speeds, speed_next)
  /\ scanned' = scanned + 1
  /\ UNCHANGED <<rvars, mvars, samples, stat>>

\* "got it": the first result that matches takes the sample
get_speeds_found ==
  /\ scanned < Len(speed_items(files, config, clock))
  /\ speed_valid(speed_next)
  /\ seek_speed(speeds, speed_next) # 0
  /\ speeds' = fold_speed(speeds, speed_next)
  /\ scanned' = scanned + 1
  /\ UNCHANGED <<rvars, mvars, samples, stat>>

NextSpeeds == get_speeds_skip \/ get_speeds_new \/ get_speeds_found

SpecSpeeds == InitSpeeds /\ [][NextSpeeds]_vars

(***************************************************************************)
(* math_stat: the figures of one result's response times                   *)
(***************************************************************************)
MaxSamples == 5    \* response times in the array math_stat is called with
MaxTime == 3       \* a response time is one of 1..MaxTime
Precision == 1000000

\* the list as it is given
sorted_not(q) == q

\* sorted(array): ascending
RECURSIVE sorted(_)
sorted(q) ==
  IF q = <<>> THEN <<>>
  ELSE LET rest == sorted(Tail(q))
           k == Cardinality({i \in 1..Len(rest) : rest[i] <= Head(q)})
       IN  SubSeq(rest, 1, k) \o <<Head(q)>> \o SubSeq(rest, k + 1, Len(rest))

\* sum(array)
RECURSIVE sum(_)
sum(q) == IF q = <<>> THEN 0 ELSE Head(q) + sum(Tail(q))

\* '%f' % (num / den): six decimals, rounded to the nearest, as an integer
\* count of millionths
format_f(num, den) == (2 * num * Precision + den) \div (2 * den)

\* math_stat(array): (label, count); the label is str(array) below three
\* samples, else '%f ... [%f] ... %f' % (left, mean, right)
math_stat(q) ==
  LET count == Len(q)
  IN  IF count < 3
      THEN [t |-> "tuple", label |-> [t |-> "str", list |-> q], count |-> count]
      ELSE LET ascending == sorted(q)
               right == ascending[Len(ascending)]
               left == ascending[1]
               middle == SubSeq(ascending, 2, Len(ascending) - 1)
           IN  [t |-> "tuple",
                label |-> [t |-> "str",
                           left |-> format_f(left, 1),
                           mean |-> format_f(sum(middle), Len(middle)),
                           right |-> format_f(right, 1)],
                count |-> count]

InitStat ==
  /\ mainpc = "started"
  /\ shared = FullConfig
  /\ config = FullConfig
  /\ lock = 0
  /\ contents = <<>>
  /\ pc = [w \in Workers |-> "off"]
  /\ content = [w \in Workers |-> PyNone]
  /\ log_path = [w \in Workers |-> <<>>]
  /\ container = [w \in Workers |-> <<>>]
  /\ files = NoFiles
  /\ files0 = files
  /\ inputs = {}
  /\ clock = Now0
  /\ faults = 0
  /\ pushed = <<>>
  /\ popped = <<>>
  /\ log = {}
  /\ batchA = <<>> /\ batchB = <<>>
  /\ docA = <<>> /\ docAB = <<>> /\ docBA = <<>>
  /\ mstep = 0
  /\ speeds = <<>> /\ scanned = 0
  /\ \E n \in 0..MaxSamples : samples \in [1..n -> 1..MaxTime]
  /\ stat = PyNone

\* rt, c = math_stat(array=rt)
math_stat_call ==
  /\ IsNone(stat)
  /\ stat' = math_stat(samples)
  /\ UNCHANGED <<rvars, mvars, speeds, scanned, samples>>

NextStat == math_stat_call

SpecStat == InitStat /\ [][NextStat]_vars

(***************************************************************************)
(* What the claims speak about                                             *)
(***************************************************************************)
Ids == 1..Len(pushed)
Logged(i, e) == <<i, e>> \in log
Tags == {log_tag(t) : t \in Times}
PathOf(option, time) == get_path(FullConfig, option, time).path
UsersPaths == {PathOf("users_log", t) : t \in Times}

\* the user id and the IPs one user item carries, in any of its shapes
EntryUid(e) == IF IsDict(e) THEN e.U ELSE e.v
EntryIps(e) ==
  IF ~IsDict(e) THEN {}
  ELSE IF IsStr(e.IP) THEN {e.IP.v}
  ELSE IF IsList(e.IP) THEN Range(e.IP.v)
  ELSE {}

\* the list stored under a tag of a document (empty when there is none)
ArrayAt(file, tag) == IF IsNone(file) THEN <<>> ELSE tag_array(file.kv, tag)
TagsOf(file) == IF IsNone(file) THEN {} ELSE {e.k : e \in Range(file.kv)}

\* {userId -> IP set} read off a stored list
UidsOf(array) == {EntryUid(e) : e \in Range(array)}
IpsOf(array, uid) == UNION {EntryIps(e) : e \in {x \in Range(array) : EntryUid(x) = uid}}
TableOf(array) == [uid \in UidsOf(array) |-> IpsOf(array, uid)]

\* the users contents whose merge into (path, tag) was committed
Merged(path, tag) ==
  {i \in Ids : /\ Logged(i, "saved")
               /\ pushed[i].mod = "users"
               /\ PathOf("users_log", pushed[i].time.v) = path
               /\ log_tag(pushed[i].time.v) = tag}

\* every user item recorded under (path, tag): on disk at construction, or
\* brought by a committed merge
Recorded(path, tag) ==
  Range(ArrayAt(files0[path], tag))
    \cup UNION {Range(pushed[i].users.v) : i \in Merged(path, tag)}

(***************************************************************************)
(* C1: after the merges committed so far into a users shard and tag, the   *)
(* list under the tag has exactly one {U, IP} entry per user id recorded   *)
(* under the tag, and the entry's IP list is, as a set, the union of the   *)
(* IPs recorded for that user under the tag (empty if there is none).      *)
(***************************************************************************)
C1_OneEntryPerUserWithAllIps ==
  \A path \in UsersPaths, tag \in Tags :
    Merged(path, tag) # {} =>
      LET array == ArrayAt(files[path], tag)
          seen == Recorded(path, tag)
      IN  /\ \A i \in 1..Len(array) : IsDict(array[i]) /\ IsList(array[i].IP)
          /\ \A i, j \in 1..Len(array) : array[i].U = array[j].U => i = j
          /\ {array[i].U : i \in 1..Len(array)} = {EntryUid(e) : e \in seen}
          /\ \A i \in 1..Len(array) :
               Range(array[i].IP.v)
                 = UNION {EntryIps(e) : e \in {x \in seen : EntryUid(x) = array[i].U}}

\* two merges into the tag of the older-format shard: u1 has both IPs, and
\* u2, seen bare and with an IP, has one entry
C1_Witness ==
  LET path == PathOf("users_log", T1)
      array == ArrayAt(files[path], log_tag(T1))
  IN  /\ files0 = LegacyFiles
      /\ Cardinality(Merged(path, log_tag(T1))) >= 2
      /\ Len(array) = 2
      /\ \E i \in 1..Len(array) : array[i].U = "u1" /\ Range(array[i].IP.v) = {"ip1", "ip2"}

(***************************************************************************)
(* C2: the contents _next has returned are, in order, the first contents   *)
(* add_log appended: popped is a prefix of pushed.                         *)
(***************************************************************************)
C2_QueueFifo ==
  /\ Len(popped) <= Len(pushed)
  /\ \A i \in 1..Len(popped) : popped[i].id = i /\ popped[i].c = pushed[i]

\* different contents went through, in the order of their add_log, the
\* second appended while the worker was processing the first
C2_Witness ==
  /\ Len(popped) >= 2
  /\ pushed[1] # pushed[2]
  /\ Logged(1, "read") /\ ~Logged(1, "write")

(***************************************************************************)
(* C3: every content returned by _next was pushed, and none is returned    *)
(* twice or lost: the popped contents and the queued ones are together     *)
(* exactly the pushed ones, each once.                                     *)
(***************************************************************************)
C3_ExactlyOnce ==
  LET out == popped \o contents
  IN  /\ Len(out) = Len(pushed)
      /\ \A i \in 1..Len(out) : out[i].id \in Ids /\ out[i].c = pushed[out[i].id]
      /\ \A i, j \in 1..Len(out) : out[i].id = out[j].id => i = j

\* one content popped, one queued, and the worker inside _next again
C3_Witness ==
  /\ Len(popped) = 1
  /\ Len(contents) = 1
  /\ \E w \in Workers : pc[w] = "next"

(***************************************************************************)
(* C4: at most one thread is between read_json and write_json of a shard   *)
(* document, and the document it merges into is still the one on disk.     *)
(***************************************************************************)
C4_SingleWriter ==
  /\ \A v, w \in Workers :
       (pc[v] = "save" /\ pc[w] = "save" /\ log_path[v] = log_path[w]) => v = w
  /\ \A w \in Workers :
       pc[w] = "save" => container[w] = container_of(read_json(files, log_path[w]))

\* the worker is between the read and the write of a users shard that
\* exists, while a producer is inside add_log
C4_Witness ==
  \E w \in Workers :
    /\ pc[w] = "save"
    /\ log_path[w] = PathOf("users_log", T1)
    /\ container[w] # <<>>
    /\ lock \in Producers

(***************************************************************************)
(* C5: when process() decides on a popped content with a timestamp, it     *)
(* discards it without reading or writing any document if the timestamp    *)
(* is less than now - 7 days, and otherwise (equality included) hands a    *)
(* users or stats content, or a speeds content with a well-formed          *)
(* address, to its routine, which reads the shard.                         *)
(***************************************************************************)
WellFormed(c) ==
  \/ c.mod \in {"users", "stats"}
  \/ /\ c.mod = "speeds"
     /\ \/ ~IsList(c.remote_address)
        \/ Len(c.remote_address.v) = 2

C5_Decision(w) ==
  LET i == content[w].id
      c == content[w].c
  IN  (pc[w] = "process" /\ pc'[w] # "process" /\ ~IsNone(c.time)) =>
        IF c.time.v < clock - Retention
        THEN /\ <<i, "expired">> \in log'
             /\ <<i, "read">> \notin log' /\ <<i, "write">> \notin log'
             /\ files' = files
             /\ pc'[w] = "idle"
        ELSE /\ <<i, "expired">> \notin log'
             /\ WellFormed(c) => <<i, "read">> \in log'

C5_RetentionBoundary == [][\A w \in Workers : C5_Decision(w)]_vars

\* a content exactly seven days old was kept and saved, and after the next
\* second another content with the same timestamp was discarded
C5_Witness ==
  \E i, j \in Ids :
    /\ pushed[i].time = PyInt(TB) /\ Logged(i, "saved")
    /\ pushed[j].time = PyInt(TB) /\ Logged(j, "expired")

(***************************************************************************)
(* C6: when persisting a popped content fails (an exception in a routine,  *)
(* an address list of length other than 2, an unknown module), the step    *)
(* still ends with the worker back in its loop, the content is not put     *)
(* back on the queue, no document changes, and the contents queued behind  *)
(* it are still the next ones in order.                                    *)
(***************************************************************************)
C6_Failure(w) ==
  LET i == content[w].id
  IN  (/\ pc[w] \in {"process", "save"}
       /\ \/ <<i, "error">> \in log' \ log
          \/ <<i, "ignored">> \in log' \ log
          \/ <<i, "unsaved">> \in log' \ log) =>
        /\ pc'[w] = "idle"
        /\ contents' = contents
        /\ popped' = popped
        /\ files' = files
        /\ \A k \in 1..Len(contents') : contents'[k].id = i + k

C6_FailuresAreLocal == [][\A w \in Workers : C6_Failure(w)]_vars

\* a routine raised on a content, and the content queued behind it was saved
C6_Witness ==
  \E i, j \in Ids :
    /\ i < j
    /\ Logged(i, "read") /\ Logged(i, "error") /\ ~Logged(i, "write")
    /\ Logged(j, "saved")

(***************************************************************************)
(* C8: a step never removes a shard document or a tag of it; the list of   *)
(* a stats or speeds tag only gets longer at its end, and every user id    *)
(* and every (user id, IP) pair a users tag held is still held.            *)
(***************************************************************************)
IsPrefix(a, b) == Len(a) <= Len(b) /\ \A i \in 1..Len(a) : a[i] = b[i]

C8_Grows(path) ==
  /\ ~IsNone(files[path]) => ~IsNone(files'[path])
  /\ TagsOf(files[path]) \subseteq TagsOf(files'[path])
  /\ \A tag \in TagsOf(files[path]) :
       LET old == ArrayAt(files[path], tag)
           new == ArrayAt(files'[path], tag)
       IN  IF path \in UsersPaths
           THEN /\ UidsOf(old) \subseteq UidsOf(new)
                /\ \A uid \in UidsOf(old) : IpsOf(old, uid) \subseteq IpsOf(new, uid)
           ELSE IsPrefix(old, new)

C8_ShardsOnlyGrow == [][files' # files => \A path \in Paths : C8_Grows(path)]_vars

\* the day's users shard got a second tag, and the older-format list of its
\* first tag was merged with an IP for u1
C8_Witness ==
  LET file == files[PathOf("users_log", T1)]
  IN  /\ Cardinality(TagsOf(file)) = 2
      /\ TableOf(ArrayAt(file, log_tag(T1))) = [u \in {"u1", "u2"} |-> {"ip1"}]

(***************************************************************************)
(* C7: once every submitted users content of a day has been processed,     *)
(* get_users for the day returns one entry per user id persisted for the   *)
(* day, whose IP set is the union of the IPs persisted for that user in    *)
(* every minute tag of the day, the entries being in the order in which    *)
(* the scan of the shard (tag by tag, item by item) first meets each id.   *)
(***************************************************************************)
Verdicts == {"expired", "ignored", "error", "saved", "unsaved"}

\* process() has returned for every users content pushed for the day of `day`
DayProcessed(day) ==
  \A i \in Ids :
    (/\ pushed[i].mod = "users"
     /\ ~IsNone(pushed[i].time)
     /\ PathOf("users_log", pushed[i].time.v) = PathOf("users_log", day)) =>
      \E e \in Verdicts : Logged(i, e)

\* every user item persisted for the day, in any tag
DayRecorded(day) ==
  UNION {Recorded(PathOf("users_log", day), tag) : tag \in Tags}

FirstAt(q, x) == CHOOSE i \in 1..Len(q) : q[i] = x /\ \A j \in 1..(i - 1) : q[j] # x

C7_Report(day) ==
  LET report == get_users(files, config, day)
      seen == DayRecorded(day)
      file == files[PathOf("users_log", day)]
      met == IF IsNone(file) THEN <<>>
             ELSE [k \in 1..Len(scan(file.kv)) |-> EntryUid(scan(file.kv)[k])]
  IN  /\ \A i, j \in 1..Len(report) : report[i].U = report[j].U => i = j
      /\ {report[i].U : i \in 1..Len(report)} = {EntryUid(e) : e \in seen}
      /\ \A i \in 1..Len(report) :
           report[i].IP = UNION {EntryIps(e) : e \in {x \in seen : EntryUid(x) = report[i].U}}
      /\ \A i, j \in 1..Len(report) :
           i < j => FirstAt(met, report[i].U) < FirstAt(met, report[j].U)

C7_UserReport ==
  \A day \in {T1, TB} :
    (mainpc = "started" /\ DayProcessed(day)) => C7_Report(day)

\* u1 with ip1, then u1 with ip2 (and a bare u2) in the same minute: two
\* entries, u1 with both IPs
C7_Witness ==
  LET report == get_users(files, config, T1)
  IN  /\ mainpc = "started"
      /\ Len(pushed) = 2
      /\ \A i \in Ids : Logged(i, "saved")
      /\ pushed[1].users = PyList(<<UserDict("u1", PyStr("ip1"))>>)
      /\ pushed[2].users = PyList(<<UserDict("u1", PyStr("ip2")), PyStr("u2")>>)
      /\ Len(report) = 2
      /\ \E i \in 1..2 : report[i].U = "u1" /\ report[i].IP = {"ip1", "ip2"}

(***************************************************************************)
(* C9: two users contents of the same minute leave the same                *)
(* {userId -> IP set} table under the tag whichever is processed first.    *)
(***************************************************************************)
C9_MergeCommutes ==
  mstep = 2 =>
    TableOf(tag_array(docAB, log_tag(T1))) = TableOf(tag_array(docBA, log_tag(T1)))

\* two different contents were merged into a tag that held u1 with ip2, and
\* the two orders stored the merged list differently
C9_Witness ==
  /\ mstep = 2
  /\ batchA = <<UserDict("u1", PyStr("ip1"))>>
  /\ batchB = <<UserDict("u1", PyStr("ip2")), PyStr("u2")>>
  /\ TableOf(tag_array(docAB, log_tag(T1))) = [u \in {"u1", "u2"} |->
                                                 IF u = "u1" THEN {"ip1", "ip2"} ELSE {}]
  /\ docAB # docBA

(***************************************************************************)
(* C10: processing the same users content a second time leaves the         *)
(* {userId -> IP set} table under the tag as it was after the first time.  *)
(***************************************************************************)
C10_MergeIdempotent ==
  (mstep = 2 /\ batchA = batchB) =>
    TableOf(tag_array(docAB, log_tag(T1))) = TableOf(tag_array(docA, log_tag(T1)))

\* u1 with ip1 was merged twice into a tag that held u1 with ip2
C10_Witness ==
  /\ mstep = 2
  /\ batchA = <<UserDict("u1", PyStr("ip1"))>>
  /\ batchB = batchA
  /\ TableOf(tag_array(docA, log_tag(T1))) = [u \in {"u1"} |-> {"ip1", "ip2"}]
  /\ TableOf(tag_array(docAB, log_tag(T1))) = [u \in {"u1"} |-> {"ip1", "ip2"}]

(***************************************************************************)
(* C11: a users content that process() has finished with, that had not     *)
(* expired and met no storage failure, is persisted whatever the shape of  *)
(* its entries (a bare id, {U}, {U, IP: str}, {U, IP: [str, ...]}): every  *)
(* entry's user is under the tag with every IP the entry supplied.         *)
(***************************************************************************)
Processed(i) == \E e \in Verdicts : Logged(i, e)

Persisted(i) ==
  LET array == ArrayAt(files[PathOf("users_log", pushed[i].time.v)],
                       log_tag(pushed[i].time.v))
  IN  \A e \in Range(pushed[i].users.v) :
        /\ EntryUid(e) \in UidsOf(array)
        /\ EntryIps(e) \subseteq IpsOf(array, EntryUid(e))

C11_EveryShapeMerged ==
  \A i \in Ids :
    (/\ pushed[i].mod = "users"
     /\ Processed(i)
     /\ ~Logged(i, "expired")
     /\ faults = 0) => Persisted(i)

(***************************************************************************)
(* C12: a bare user id stored under a tag counts as {U: id, IP: []}:       *)
(* get_users reports the same for a users shard as for the shard with      *)
(* every bare id written that way; _save_users stores under the tag what   *)
(* it would store had the document read been written that way; and where   *)
(* the tag holds id only as a bare id and the content brings {U: id,       *)
(* IP: x} and no other IP for id, the list _save_users writes has one      *)
(* entry for id, with the IP list [x].                                     *)
(***************************************************************************)
Structured(item) == IF IsStr(item) THEN UserDict(item.v, PyList(<<>>)) ELSE item
StructuredDoc(kv) ==
  [i \in 1..Len(kv) |->
     [k |-> kv[i].k, v |-> [j \in 1..Len(kv[i].v) |-> Structured(kv[i].v[j])]]]

C12_Report(day) ==
  LET path == PathOf("users_log", day)
  IN  ~IsNone(files[path]) =>
        get_users(files, FullConfig, day)
          = get_users([files EXCEPT ![path] = PyDict(StructuredDoc(files[path].kv))],
                      FullConfig, day)

C12_Save(w) ==
  LET c == content[w].c
      tag == log_tag(c.time.v)
      old == tag_array(container[w], tag)
      saved == save_users(container[w], c.time.v, c.users.v)
      other == save_users(StructuredDoc(container[w]), c.time.v, c.users.v)
  IN  /\ saved.ok = other.ok
      /\ {tag_array(out, tag) : out \in saved.out} = {tag_array(out, tag) : out \in other.out}
      /\ \A e \in Range(c.users.v) :
           (/\ IsDict(e) /\ IsStr(e.IP)
            /\ PyStr(e.U) \in Range(old)
            /\ IpsOf(old, e.U) = {}
            /\ IpsOf(c.users.v, e.U) = {e.IP.v}) =>
             /\ saved.ok
             /\ \A out \in saved.out :
                  LET new == tag_array(out, tag)
                  IN  /\ Cardinality({k \in 1..Len(new) : new[k].U = e.U}) = 1
                      /\ \A k \in 1..Len(new) :
                           new[k].U = e.U => new[k].IP = PyList(<<e.IP.v>>)

C12_LegacyItems ==
  /\ \A day \in Times : C12_Report(day)
  /\ \A w \in Workers : (pc[w] = "save" /\ content[w].c.mod = "users") => C12_Save(w)

\* the tag held u1 as a bare id; {U: u1, IP: ip1} was merged into it and the
\* tag now holds u1 once, with the IP list [ip1], next to u2
C12_Witness ==
  LET path == PathOf("users_log", T1)
  IN  /\ PyStr("u1") \in Range(ArrayAt(files0[path], log_tag(T1)))
      /\ Len(pushed) = 1
      /\ pushed[1].users = PyList(<<UserDict("u1", PyStr("ip1"))>>)
      /\ Logged(1, "saved")
      /\ UserDict("u1", PyList(<<"ip1">>)) \in Range(ArrayAt(files[path], log_tag(T1)))
      /\ Len(ArrayAt(files[path], log_tag(T1))) = 2
      /\ get_users(files0, FullConfig, T1)[1] = [U |-> "u1", IP |-> {}]

(***************************************************************************)
(* C13: when the worker's step saves a stats content with n entries or a   *)
(* speeds content with n stations, the list under the content's tag is     *)
(* afterwards the list that was there followed by n items, in the order of *)
(* the content: the stats entries as they came, one item per station with  *)
(* the station's host:port and response time and the content's sender,     *)
(* provider and client. Items equal to stored ones are appended too.       *)
(***************************************************************************)
C13_Append(w) ==
  LET i == content[w].id
      c == content[w].c
      tag == log_tag(c.time.v)
      old == ArrayAt(files[log_path[w]], tag)
      new == ArrayAt(files'[log_path[w]], tag)
      n == IF c.mod = "stats" THEN Len(c.stats.v) ELSE Len(c.stations.v)
  IN  (/\ pc[w] = "save"
       /\ c.mod \in {"stats", "speeds"}
       /\ <<i, "saved">> \in log') =>
        /\ Len(new) = Len(old) + n
        /\ IsPrefix(old, new)
        /\ \A k \in 1..n :
             IF c.mod = "stats"
             THEN new[Len(old) + k] = c.stats.v[k]
             ELSE /\ new[Len(old) + k].station
                       = HostPort(c.stations.v[k].host, c.stations.v[k].port.v)
                  /\ new[Len(old) + k].response_time = c.stations.v[k].response_time
                  /\ new[Len(old) + k].U = c.U
                  /\ new[Len(old) + k].provider = c.provider
                  /\ new[Len(old) + k].client = client_address(c.remote_address).client

C13_AppendOnly == [][\A w \in Workers : C13_Append(w)]_vars

\* the same speeds content was saved twice: four items, the third equal to
\* the first and the fourth to the second
C13_Witness ==
  LET array == ArrayAt(files[PathOf("speeds_log", T1)], log_tag(T1))
  IN  /\ Len(pushed) = 2
      /\ pushed[1] = pushed[2]
      /\ Logged(1, "saved") /\ Logged(2, "saved")
      /\ Len(array) = 4
      /\ array[1] = array[3] /\ array[2] = array[4] /\ array[1] # array[2]

(***************************************************************************)
(* C15: self.__lock is held only inside add_log and _next: a thread of the *)
(* loop that holds it is inside _next, so while a worker decides on a      *)
(* content or is between the read and the write of a shard the lock is     *)
(* free or held by a producer, and a producer that holds it can append     *)
(* and release at once, whatever the worker is doing.                      *)
(***************************************************************************)
C15_LockNotHeldInStorage ==
  /\ \A w \in Workers : lock = w => pc[w] = "next"
  /\ \A w \in Workers : pc[w] \in {"process", "save"} => lock \in {0} \cup Producers
  /\ \A p \in Producers : lock = p => ENABLED add_log_append(p)

\* the worker is between the read and the write of a shard, and a producer
\* that took the lock meanwhile has appended its content and released it
C15_Witness ==
  \E w \in Workers :
    /\ pc[w] = "save"
    /\ lock = 0
    /\ Len(pushed) = 2
    /\ Len(contents) = 1
    /\ contents[1].id = 2
    /\ ~Logged(1, "write")

(***************************************************************************)
(* C16: under fair scheduling every content add_log appended is eventually *)
(* returned by _next and process() finishes with it: it is saved, or       *)
(* dropped as expired, ignored, failed or unsaved.                         *)
(***************************************************************************)
C16_EventuallyProcessed ==
  \A i \in 1..MaxPush :
    (Len(pushed) >= i) ~> (Len(popped) >= i /\ popped[i].id = i /\ Processed(i))

\* the second content was saved after the first, queued before it, had
\* failed in its routine
C16_Witness ==
  /\ Len(pushed) = 2
  /\ Logged(1, "error") /\ Logged(1, "read")
  /\ Logged(2, "saved")
  /\ contents = <<>>

(***************************************************************************)
(* C17: started with a configuration that lacks the template of a log      *)
(* kind, the recorder runs no loop thread, and no content is returned by   *)
(* _next or processed.                                                     *)
(***************************************************************************)
C17_MissingTemplateIsFatal ==
  (\E o \in Options : IsNone(shared[o])) =>
    /\ \A w \in Workers : pc[w] = "off"
    /\ popped = <<>>
    /\ log = {}

(***************************************************************************)
(* C18: when the read or the write of a shard fails in a step of the       *)
(* worker, the worker logs the failure as an error, the content is gone    *)
(* (the step returns to the loop and does not queue it again), and no      *)
(* document changes.                                                       *)
(***************************************************************************)
C18_Failure(w) ==
  LET i == content[w].id
  IN  (pc[w] \in {"process", "save"} /\ faults' = faults + 1) =>
        /\ <<i, "error">> \in log'
        /\ pc'[w] = "idle"
        /\ contents' = contents
        /\ files' = files

C18_StorageFailureLogged == [][\A w \in Workers : C18_Failure(w)]_vars

(***************************************************************************)
(* What the claims about get_speeds speak about                            *)
(***************************************************************************)
\* the stored items of the day's speeds shard in scan order, those of them
\* with a response time above 0, and whether the loops are through
SpeedItems == speed_items(files, config, clock)
PositiveTime(item) == ~IsNone(item.response_time) /\ item.response_time.v > 0
ValidItems == SelectSeq(SpeedItems, PositiveTime)
ScanDone == scanned = Len(SpeedItems)

SameStationAndIp(a, b) ==
  a.station = b.station /\ client_ip(a.client) = client_ip(b.client)

\* every sample of every result, result by result
RECURSIVE AllSamples(_)
AllSamples(results) ==
  IF results = <<>> THEN <<>> ELSE Head(results).rt \o AllSamples(Tail(results))

(***************************************************************************)
(* C14 as stated: of a shard with two valid items that agree on station    *)
(* and client IP, get_speeds makes one result with two samples if they     *)
(* have the same provider and user, and two results if they differ in      *)
(* provider or in user, in either scan order.                              *)
(***************************************************************************)
C14_SpeedGrouping ==
  (ScanDone /\ Len(ValidItems) = 2 /\ SameStationAndIp(ValidItems[1], ValidItems[2])) =>
    IF ValidItems[1].provider = ValidItems[2].provider /\ ValidItems[1].U = ValidItems[2].U
    THEN Len(speeds) = 1 /\ Len(speeds[1].rt) = 2
    ELSE Len(speeds) = 2

(***************************************************************************)
(* C14 amended: of a shard with two valid items that agree on station and  *)
(* client IP, get_speeds makes two results exactly if the item scanned     *)
(* first has a provider that is not None and differs from the second's,    *)
(* or a user that is not None and differs from the second's; otherwise     *)
(* (same provider and user, or the first item has None wherever they       *)
(* differ) it makes one result with both samples.                          *)
(***************************************************************************)
C14_SpeedGroupingPinned ==
  (ScanDone /\ Len(ValidItems) = 2 /\ SameStationAndIp(ValidItems[1], ValidItems[2])) =>
    LET a == ValidItems[1]
        b == ValidItems[2]
    IN  IF \/ ~IsNone(a.provider) /\ a.provider # b.provider
           \/ ~IsNone(a.U) /\ a.U # b.U
        THEN /\ Len(speeds) = 2
             /\ speeds[1].rt = <<a.response_time.v>>
             /\ speeds[2].rt = <<b.response_time.v>>
        ELSE /\ Len(speeds) = 1
             /\ speeds[1].rt = <<a.response_time.v, b.response_time.v>>

\* an item of user u1, then an item without a user, same station, client
\* and provider: two results (in the other order there is one)
C14_Witness ==
  /\ ScanDone
  /\ Len(SpeedItems) = 2
  /\ Len(ValidItems) = 2
  /\ SameStationAndIp(ValidItems[1], ValidItems[2])
  /\ ValidItems[1].provider = ValidItems[2].provider
  /\ ValidItems[1].U = PyStr("u1") /\ ValidItems[2].U = PyNone
  /\ Len(speeds) = 2

(***************************************************************************)
(* C20: as far as the loops of get_speeds have come, every stored item     *)
(* with a response time above 0 has its response time in the sample list   *)
(* of one result, once, and an item with no response time or one of 0 or   *)
(* less has added nothing: the samples of all results are, value by value  *)
(* and as many times, the response times of the valid items gone through;  *)
(* and at an item that is not valid the loops can go on to the next.       *)
(***************************************************************************)
C20_SamplesConserved ==
  LET all == AllSamples(speeds)
      valid == {k \in 1..scanned : PositiveTime(SpeedItems[k])}
  IN  /\ Len(all) = Cardinality(valid)
      /\ \A v \in Range(all) \cup {SpeedItems[k].response_time.v : k \in valid} :
           Cardinality({i \in 1..Len(all) : all[i] = v})
             = Cardinality({k \in valid : SpeedItems[k].response_time.v = v})
      /\ \A i \in 1..Len(all) : all[i] > 0
      /\ (scanned < Len(SpeedItems) /\ ~PositiveTime(SpeedItems[scanned + 1])) =>
           ENABLED get_speeds_skip

\* a valid item, an item with response time 0 and a valid item of another
\* user were gone through: two results of one sample each
C20_Witness ==
  /\ ScanDone
  /\ Len(SpeedItems) = 3
  /\ PositiveTime(SpeedItems[1])
  /\ SpeedItems[2].response_time = PyInt(0)
  /\ PositiveTime(SpeedItems[3])
  /\ Len(speeds) = 2
  /\ Len(AllSamples(speeds)) = 2

(***************************************************************************)
(* C19: math_stat returns the number of samples as the count; below three  *)
(* samples the label is the list as given; from three on the label shows   *)
(* the least and the greatest sample and, in brackets, the mean of the     *)
(* samples without one occurrence of the least and one of the greatest     *)
(* (to six decimals, rounded to the nearest).                              *)
(***************************************************************************)
Least(q) == CHOOSE x \in Range(q) : \A y \in Range(q) : x <= y
Greatest(q) == CHOOSE x \in Range(q) : \A y \in Range(q) : x >= y

RECURSIVE Total(_)
Total(q) == IF q = <<>> THEN 0 ELSE q[Len(q)] + Total(SubSeq(q, 1, Len(q) - 1))

C19_TrimmedStatistic ==
  ~IsNone(stat) =>
    LET n == Len(samples)
        trimmed == Total(samples) - Least(samples) - Greatest(samples)
        off == stat.label.mean * (n - 2) - trimmed * Precision
    IN  /\ stat.count = n
        /\ n < 3 => stat.label = [t |-> "str", list |-> samples]
        /\ n >= 3 =>
             /\ stat.label.left = Least(samples) * Precision
             /\ stat.label.right = Greatest(samples) * Precision
             /\ 2 * off <= n - 2 /\ 2 * off >= 2 - n

\* math_stat([1, 2, 3]) = ('1.000000 ... [2.000000] ... 3.000000', 3)
C19_Witness ==
  /\ samples = <<1, 2, 3>>
  /\ stat = [t |-> "tuple",
             label |-> [t |-> "str", left |-> 1000000, mean |-> 2000000, right |-> 3000000],
             count |-> 3]

(***************************************************************************)
(* C21: in a step of the loops of get_speeds every result stays in its     *)
(* place; a provider (a user) a result has is not changed by the step; and *)
(* the item whose sample a result takes in the step has the provider (the  *)
(* user) the result had before, where it had one: an item with another     *)
(* provider or user, or with none, does not join it.                       *)
(***************************************************************************)
C21_Step ==
  /\ Len(speeds') >= Len(speeds)
  /\ \A i \in 1..Len(speeds) :
       /\ ~IsNone(speeds[i].provider) => speeds'[i].provider = speeds[i].provider
       /\ ~IsNone(speeds[i].U) => speeds'[i].U = speeds[i].U
       /\ speeds'[i].rt # speeds[i].rt =>
            /\ ~IsNone(speeds[i].provider) => speed_next.provider = speeds[i].provider
            /\ ~IsNone(speeds[i].U) => speed_next.U = speeds[i].U

C21_BucketPinned == [][C21_Step]_vars

\* the first result, of provider p1 and user u1 from its first item, took a
\* second sample; an item of its station and client IP without a provider
\* went to a result of its own
C21_Witness ==
  /\ ScanDone
  /\ Len(SpeedItems) = 3
  /\ Len(speeds) = 2
  /\ SpeedItems[1].provider = PyStr("p1") /\ SpeedItems[1].U = PyStr("u1")
  /\ speeds[1].provider = PyStr("p1") /\ speeds[1].U = PyStr("u1")
  /\ Len(speeds[1].rt) = 2
  /\ speeds[2].station = speeds[1].station
  /\ speeds[2].client_ip = speeds[1].client_ip
  /\ IsNone(speeds[2].provider)

(***************************************************************************)
(* C22: a step changes a shard document only as the write of a content     *)
(* that is of one of the three kinds and was not dropped as expired or     *)
(* ignored; the document is the one of the content's kind and day, and     *)
(* every tag of it but the tag of the content's minute is there before     *)
(* and after or neither, with the same list; every other document stays    *)
(* as it is; and the step that drops an expired content or one of an       *)
(* unknown kind changes no document.                                       *)
(***************************************************************************)
C22_Document(c) ==
  <<CASE c.mod = "users" -> "users_log"
      [] c.mod = "stats" -> "stats_log"
      [] c.mod = "speeds" -> "speeds_log">>
  \o SubSeq(parse_time(c.time.v), 1, 3)

C22_Changed(path) ==
  files'[path] # files[path] =>
    \E w \in Workers :
      LET c == content[w].c
      IN  /\ pc[w] = "save" /\ pc'[w] = "idle"
          /\ c.mod \in Mods
          /\ ~Logged(content[w].id, "expired")
          /\ ~Logged(content[w].id, "ignored")
          /\ path = C22_Document(c)
          /\ \A tag \in (TagsOf(files[path]) \cup TagsOf(files'[path])) \ {log_tag(c.time.v)} :
               /\ tag \in TagsOf(files[path])
               /\ tag \in TagsOf(files'[path])
               /\ ArrayAt(files'[path], tag) = ArrayAt(files[path], tag)

C22_Dropped(w) ==
  (/\ pc[w] = "process" /\ pc'[w] = "idle"
   /\ IF expired(content[w].c.time, clock) THEN TRUE ELSE content[w].c.mod \notin Mods) =>
    files' = files

C22_MergeFrame ==
  [][(\A path \in Paths : C22_Changed(path)) /\ (\A w \in Workers : C22_Dropped(w))]_vars

\* a users content of the minute T2 and then a stats content were saved:
\* the users document has the tag of T1 with the list it had at first, and
\* the tag of T2; a content of an unknown kind would have left both alone
C22_Witness ==
  /\ Len(pushed) = 2
  /\ pushed[1] = UsersContent(PyInt(T2), <<UserDict("u2", PyNone)>>)
  /\ pushed[2].mod = "stats"
  /\ Logged(1, "saved") /\ Logged(2, "saved")
  /\ TagsOf(files[PathOf("users_log", T1)]) = {log_tag(T1), log_tag(T2)}
  /\ ArrayAt(files[PathOf("users_log", T1)], log_tag(T1))
       = ArrayAt(files0[PathOf("users_log", T1)], log_tag(T1))
  /\ ~IsNone(files[PathOf("stats_log", T1)])

(***************************************************************************)
(* C23: while a speeds content is being processed, a content of which the  *)
(* item of some station cannot be built (a port that '%d' does not take,   *)
(* an address list not of length 2) changes no document, is not saved and  *)
(* ends as an error; and whatever the content, the step in which it is     *)
(* saved appends one item for every one of its stations to the list of     *)
(* its tag, and any other step leaves its document as it is.               *)
(***************************************************************************)
C23_Buildable(c) ==
  /\ IsList(c.remote_address) =>
       Len(c.remote_address.v) = 2 /\ c.remote_address.v[2].t = "int"
  /\ \A k \in 1..Len(c.stations.v) : c.stations.v[k].port.t = "int"

C23_Event(w) ==
  LET i == content[w].id
      c == content[w].c
      path == PathOf("speeds_log", c.time.v)
      old == ArrayAt(files[path], log_tag(c.time.v))
      new == ArrayAt(files'[path], log_tag(c.time.v))
      n == Len(c.stations.v)
  IN  (pc[w] \in {"process", "save"} /\ c.mod = "speeds") =>
        /\ ~C23_Buildable(c) =>
             /\ files' = files
             /\ <<i, "saved">> \notin log'
             /\ pc'[w] = "idle" => <<i, "error">> \in log'
        /\ IF <<i, "saved">> \in log'
           THEN /\ Len(new) = Len(old) + n
                /\ IsPrefix(old, new)
                /\ \A k \in 1..n :
                     new[Len(old) + k].station
                       = HostPort(c.stations.v[k].host, c.stations.v[k].port.v)
           ELSE files'[path] = files[path]

C23_AllOrNothing == [][\A w \in Workers : C23_Event(w)]_vars

\* a content with a station without a port ended as an error and left no
\* speeds document; the content after it was saved with both its stations
C23_Witness ==
  /\ Len(pushed) = 2
  /\ pushed[1].mod = "speeds" /\ ~C23_Buildable(pushed[1])
  /\ ~IsList(pushed[1].remote_address)
  /\ pushed[2].mod = "speeds" /\ Len(pushed[2].stations.v) = 2
  /\ Logged(1, "read") /\ Logged(1, "error")
  /\ Logged(2, "saved")
  /\ Len(ArrayAt(files[PathOf("speeds_log", T1)], log_tag(T1))) = 2
====
